---- MODULE Spec2Model ----
(***************************************************************************)
(* Link-button pairing window (services/security.py, EnhancedSecurity) and *)
(* the registration gate built on it (flaskUI/restful_enhanced.py,         *)
(* enhanced_auth_wrapper).                                                 *)
(*                                                                         *)
(* The clock of time.time() is counted in whole seconds.                   *)
(*                                                                         *)
(* uuid.uuid4() is modelled by its contract: every call returns a value    *)
(* never returned before (uuid_count numbers them).  md5 / sha256 hex      *)
(* digests are modelled as collision free: a digest is the record of the   *)
(* hashed text and of the number of hex characters kept.                   *)
(***************************************************************************)
EXTENDS Integers, Sequences, FiniteSets, TLC

\* ---- bounds of the model ------------------------------------------------
MaxTimeout == 2
MaxTime == 3
MaxTimers == 2
MaxUuid == 3
\* frames the interpreter allows before it raises RecursionError
RecursionLimit == 3
\* request threads that may be inside EnhancedSecurity at once
NThreads == 2

\* ---- program constants --------------------------------------------------
Md5HexLen == 32
Sha256HexLen == 64
ClientKeyLen == 32
LinkButtonNotPressedType == 101

ENHANCED_SECURITY_AVAILABLE == TRUE

DeviceTypes == {"app#device"}
DefaultDeviceType == "unknown#unknown"

Min(a, b) == IF a < b THEN a ELSE b
Max(a, b) == IF a > b THEN a ELSE b

LedsOff == [led1 |-> FALSE, led2 |-> FALSE, led3 |-> FALSE]
LedsOn == [led1 |-> TRUE, led2 |-> TRUE, led3 |-> TRUE]

\* ---- threading.Timer ----------------------------------------------------
\* A timer thread sleeps ("waiting") until its deadline, then tests its
\* finished flag and, if not cancelled, is committed to run the callback
\* ("inflight"); cancel() only reaches a timer that is still waiting.
\* Once its finished flag is set (by cancel() or at the end of run()) a timer
\* does nothing more, and its deadline is forgotten.
NewTimer(t, interval) == [deadline |-> t + interval, state |-> "waiting"]
FinishedTimer == [deadline |-> 0, state |-> "finished"]

TimerCancel(tm, i) ==
    IF tm[i].state = "waiting" THEN [tm EXCEPT ![i] = FinishedTimer]
    ELSE IF tm[i].state = "created" THEN [tm EXCEPT ![i].state = "cancelled"]
    ELSE tm

\* ---- EnhancedSecurity ---------------------------------------------------
EnhancedSecurityInit(timeout, enabled) ==
    [button_pressed |-> FALSE,
     button_press_time |-> 0,
     button_timeout |-> timeout,
     security_enabled |-> enabled,
     led_state |-> LedsOff,
     cleanup_thread |-> 0]

\* _button_timeout that leaves the indicators as they are
_button_timeout_leds_kept(self) ==
    [self EXCEPT !.button_pressed = FALSE, !.button_press_time = 0]

_button_timeout(self) ==
    [self EXCEPT !.button_pressed = FALSE,
                 !.button_press_time = 0,
                 !.led_state = LedsOff]

\* press_button that arms the window and the indicators but starts no timer
press_button_no_timer(self, tm, t) ==
    IF ~self.security_enabled
    THEN [self |-> [self EXCEPT !.button_pressed = TRUE, !.button_press_time = t],
          timers |-> tm,
          ret |-> [success |-> TRUE, timeout |-> self.button_timeout,
                   leds |-> self.led_state,
                   time_remaining |-> self.button_timeout,
                   message |-> "Link button activated"]]
    ELSE LET tm1 == IF self.cleanup_thread # 0
                    THEN TimerCancel(tm, self.cleanup_thread) ELSE tm
             tm2 == Append(tm1, FinishedTimer)
         IN [self |-> [self EXCEPT !.button_pressed = TRUE,
                                   !.button_press_time = t,
                                   !.led_state = LedsOn,
                                   !.cleanup_thread = Len(tm2)],
             timers |-> tm2,
             ret |-> [success |-> TRUE, timeout |-> self.button_timeout,
                      leds |-> LedsOn,
                      time_remaining |-> self.button_timeout,
                      message |-> "Link button activated. All 3 LEDs blinking."]]

\* press_button that arms the window and its timer but leaves the indicators
press_button_no_leds(self, tm, t) ==
    IF ~self.security_enabled
    THEN [self |-> [self EXCEPT !.button_pressed = TRUE, !.button_press_time = t],
          timers |-> tm,
          ret |-> [success |-> TRUE, timeout |-> self.button_timeout,
                   leds |-> self.led_state,
                   time_remaining |-> self.button_timeout,
                   message |-> "Link button activated"]]
    ELSE LET tm1 == IF self.cleanup_thread # 0
                    THEN TimerCancel(tm, self.cleanup_thread) ELSE tm
             tm2 == Append(tm1, NewTimer(t, self.button_timeout))
         IN [self |-> [self EXCEPT !.button_pressed = TRUE,
                                   !.button_press_time = t,
                                   !.cleanup_thread = Len(tm2)],
             timers |-> tm2,
             ret |-> [success |-> TRUE, timeout |-> self.button_timeout,
                      leds |-> self.led_state,
                      time_remaining |-> self.button_timeout,
                      message |-> "Link button activated. All 3 LEDs blinking."]]

press_button(self, tm, t) ==
    IF ~self.security_enabled
    THEN [self |-> [self EXCEPT !.button_pressed = TRUE, !.button_press_time = t],
          timers |-> tm,
          ret |-> [success |-> TRUE, timeout |-> self.button_timeout,
                   leds |-> self.led_state,
                   time_remaining |-> self.button_timeout,
                   message |-> "Link button activated"]]
    ELSE LET tm1 == IF self.cleanup_thread # 0
                    THEN TimerCancel(tm, self.cleanup_thread) ELSE tm
             tm2 == Append(tm1, NewTimer(t, self.button_timeout))
         IN [self |-> [self EXCEPT !.button_pressed = TRUE,
                                   !.button_press_time = t,
                                   !.led_state = LedsOn,
                                   !.cleanup_thread = Len(tm2)],
             timers |-> tm2,
             ret |-> [success |-> TRUE, timeout |-> self.button_timeout,
                      leds |-> LedsOn,
                      time_remaining |-> self.button_timeout,
                      message |-> "Link button activated. All 3 LEDs blinking."]]

\* is_button_pressed without the elapsed-time test
is_button_pressed_no_expiry(self, t) == [self |-> self, ret |-> self.button_pressed]

\* is_button_pressed with the window one second too long
is_button_pressed_late(self, t) ==
    IF ~self.button_pressed
    THEN [self |-> self, ret |-> FALSE]
    ELSE IF t - self.button_press_time > self.button_timeout + 1
         THEN [self |-> _button_timeout(self), ret |-> FALSE]
         ELSE [self |-> self, ret |-> TRUE]

is_button_pressed(self, t) ==
    IF ~self.button_pressed
    THEN [self |-> self, ret |-> FALSE]
    ELSE LET elapsed == t - self.button_press_time
         IN IF elapsed > self.button_timeout
            THEN [self |-> _button_timeout(self), ret |-> FALSE]
            ELSE [self |-> self, ret |-> TRUE]

\* get_status reporting the expiry without performing it
get_status_no_expire(self, t) ==
    IF self.button_pressed /\ t - self.button_press_time < self.button_timeout
    THEN [self |-> self,
          ret |-> [button_pressed |-> TRUE, leds |-> self.led_state,
                   time_remaining |-> self.button_timeout - (t - self.button_press_time),
                   message |-> "Link button active."]]
    ELSE [self |-> self,
          ret |-> [button_pressed |-> FALSE, leds |-> LedsOff,
                   time_remaining |-> 0,
                   message |-> "Link button timeout expired"]]

get_status(self, t) ==
    IF ~self.button_pressed
    THEN [self |-> self,
          ret |-> [button_pressed |-> FALSE, leds |-> LedsOff,
                   time_remaining |-> 0,
                   message |-> "Link button not pressed"]]
    ELSE LET elapsed == t - self.button_press_time
             remaining == Max(0, self.button_timeout - elapsed)
         IN IF remaining = 0
            THEN [self |-> _button_timeout(self),
                  ret |-> [button_pressed |-> FALSE, leds |-> LedsOff,
                           time_remaining |-> 0,
                           message |-> "Link button timeout expired"]]
            ELSE [self |-> self,
                  ret |-> [button_pressed |-> TRUE, leds |-> self.led_state,
                           time_remaining |-> remaining,
                           message |-> "Link button active."]]

\* reset that cancels the timer and leaves the state alone
reset_cancel_only(self, tm) ==
    [self |-> self,
     timers |-> IF self.cleanup_thread # 0
                THEN TimerCancel(tm, self.cleanup_thread) ELSE tm]

reset(self, tm) ==
    [self |-> _button_timeout(self),
     timers |-> IF self.cleanup_thread # 0
                THEN TimerCancel(tm, self.cleanup_thread) ELSE tm]

\* ---- enhanced_auth_wrapper ----------------------------------------------
\* dict.get(key, default)
DictGet(d, k, default) == IF k \in DOMAIN d THEN d[k] ELSE default

\* hashlib.<alg>(text).hexdigest() and the slice [:n] of a digest
HexDigest(alg, text, len) == [alg |-> alg, of |-> text, len |-> len]
Slice(h, n) == [h EXCEPT !.len = Min(h.len, n)]

\* the username hashed from the device type alone
Username_no_uuid(device_type, u) == HexDigest("md5", <<device_type>>, Md5HexLen)

\* hashlib.md5((device_type + str(uuid.uuid4())).encode()).hexdigest()
Username(device_type, u) == HexDigest("md5", <<device_type, u>>, Md5HexLen)

\* hashlib.sha256(str(uuid.uuid4()).encode()).hexdigest()[:32]
ClientKey(u) == Slice(HexDigest("sha256", <<u>>, Sha256HexLen), ClientKeyLen)

\* str(datetime.now()): the second of the clock reading, and whether it was
\* taken after the clock's sub-second part moved on
DateTimeNow(t, later) == <<t, later>>

LinkButtonNotPressed ==
    [error |-> [type |-> LinkButtonNotPressedType, address |-> "",
                description |-> "link button not pressed"]]

EmptyDict == [k \in {} |-> 0]

\* The wrapper reads the clock twice for the two dates of the entry; skew
\* tells whether the clock moved on between the two readings.
enhanced_auth_wrapper(data, bc, self, t, uuids, skew) ==
    LET device_type == DictGet(data, "devicetype", DefaultDeviceType)
        generate_client_key == DictGet(data, "generateclientkey", FALSE)
        chk == IF ENHANCED_SECURITY_AVAILABLE
               THEN is_button_pressed(self, t)
               ELSE [self |-> self, ret |-> TRUE]
    IN IF ~chk.ret
       THEN [self |-> chk.self, bridge_config |-> bc, uuids |-> uuids,
             ret |-> LinkButtonNotPressed]
       ELSE LET status == IF ENHANCED_SECURITY_AVAILABLE
                          THEN get_status(chk.self, t)
                          ELSE [self |-> chk.self, ret |-> EmptyDict]
                username == Username(device_type, uuids + 1)
                wl == DictGet(bc, "whitelist", EmptyDict)
                entry0 == [k \in {"last use date", "create date", "name"} |->
                             CASE k = "last use date" -> DateTimeNow(t, FALSE)
                               [] k = "create date" -> DateTimeNow(t, skew)
                               [] k = "name" -> device_type]
                client_key == ClientKey(uuids + 2)
                entry == IF generate_client_key
                         THEN [k \in DOMAIN entry0 \cup {"clientkey"} |->
                                 IF k = "clientkey" THEN client_key ELSE entry0[k]]
                         ELSE entry0
                wl2 == [k \in DOMAIN wl \cup {username} |->
                          IF k = username THEN entry ELSE wl[k]]
                bc2 == [k \in DOMAIN bc \cup {"whitelist"} |->
                          IF k = "whitelist" THEN wl2 ELSE bc[k]]
                succ == IF generate_client_key
                        THEN [username |-> username, clientkey |-> client_key]
                        ELSE [username |-> username]
            IN [self |-> status.self, bridge_config |-> bc2,
                uuids |-> IF generate_client_key THEN uuids + 2 ELSE uuids + 1,
                ret |-> [success |-> succ]]

\* ---- patch_bridge_linkbutton ---------------------------------------------
DictPut(d, k, v) == [x \in DOMAIN d \cup {k} |-> IF x = k THEN v ELSE d[x]]

\* the instance of class EnhancedLinkButton; it keeps no field of its own and
\* reaches the configuration through the closure variable bridge_config
EnhancedLinkButton == [class |-> "EnhancedLinkButton"]

patch_bridge_linkbutton(bc) ==
    IF ~ENHANCED_SECURITY_AVAILABLE
    THEN bc
    ELSE LET bc1 == IF "linkbutton" \notin DOMAIN bc
                    THEN DictPut(bc, "linkbutton", [lastpress |-> 0])
                    ELSE bc
         IN DictPut(bc1, "linkbutton", EnhancedLinkButton)

\* __getitem__ answering from the flag alone
EnhancedLinkButton_getitem_flag_only(bc, self, t, key) ==
    IF key = "lastpress"
    THEN [self |-> self, ret |-> IF self.button_pressed THEN t ELSE 0]
    ELSE [self |-> self, ret |-> 0]

\* __getitem__: time.time() is read in whole seconds here, so int() of it is
\* the clock value itself.  For another key the lookup goes to whatever
\* bridge_config["linkbutton"] is now: the wrapper's own get(key, 0), which
\* returns the default, or the .get of a plain dict.
EnhancedLinkButton_getitem(bc, self, t, key) ==
    IF key = "lastpress"
    THEN LET r == is_button_pressed(self, t)
         IN [self |-> r.self, ret |-> IF r.ret THEN t ELSE 0]
    ELSE [self |-> self,
          ret |-> IF bc["linkbutton"] = EnhancedLinkButton
                  THEN 0
                  ELSE DictGet(bc["linkbutton"], key, 0)]

EnhancedLinkButton_get(bc, self, t, key, default) ==
    IF key \in {"lastpress"}
    THEN EnhancedLinkButton_getitem(bc, self, t, key)
    ELSE [self |-> self, ret |-> default]

\* __setitem__ in a frame with `depth` frames left.  Its last statement
\* assigns through bridge_config["linkbutton"]: when that is the wrapper
\* itself the assignment is another __setitem__ call, one frame deeper, and
\* the interpreter raises RecursionError when no frame is left; what the
\* frames above have done by then stays done.
RECURSIVE EnhancedLinkButton_setitem(_, _, _, _, _, _, _)
EnhancedLinkButton_setitem(bc, self, tm, t, key, value, depth) ==
    IF depth = 0
    THEN [self |-> self, timers |-> tm, bridge_config |-> bc,
          presses |-> 0, outcome |-> "RecursionError"]
    ELSE LET p == IF key = "lastpress"
                  THEN press_button(self, tm, t)
                  ELSE [self |-> self, timers |-> tm]
             n == IF key = "lastpress" THEN 1 ELSE 0
             target == bc["linkbutton"]
         IN IF target = EnhancedLinkButton
            THEN LET r == EnhancedLinkButton_setitem(bc, p.self, p.timers, t,
                                                     key, value, depth - 1)
                 IN [r EXCEPT !.presses = @ + n]
            ELSE [self |-> p.self, timers |-> p.timers,
                  bridge_config |-> DictPut(bc, "linkbutton", DictPut(target, key, value)),
                  presses |-> n, outcome |-> "returned"]

\* ---- state ----------------------------------------------------------------
VARIABLES
    enhanced_security,  \* the global EnhancedSecurity instance
    timers,             \* every threading.Timer started so far
    now,                \* the clock, in seconds
    bridge_config,      \* the bridge configuration dict (whitelist)
    uuid_count,         \* number of uuid4() values handed out
    ret,                \* the operation that ran last: its input, its result
                        \* and what the window was when it started
    hist,               \* what has happened since the most recent press_button
    pc                  \* where each request thread stands inside EnhancedSecurity

vars == <<enhanced_security, timers, now, bridge_config, uuid_count, ret, hist, pc>>

\* How the window stood when an operation started: the flag, and where the
\* clock was relative to the end of the window opened by button_press_time.
Was(self, t) ==
    [pressed |-> self.button_pressed,
     phase |-> IF ~self.button_pressed THEN "none"
               ELSE IF t - self.button_press_time < self.button_timeout THEN "before"
               ELSE IF t - self.button_press_time = self.button_timeout THEN "at"
               ELSE "after"]

\* request bodies: one without any key (device type and client key both
\* defaulted) and one naming a device type and asking for a client key
Requests ==
    {EmptyDict}
    \cup {[k \in {"devicetype", "generateclientkey"} |->
             IF k = "devicetype" THEN d ELSE TRUE] : d \in DeviceTypes}

\* BUTTON_TIMEOUT is any int() the environment gives, 0 included, and
\* BUTTON_SECURITY either value; time.time() is never 0, the value that
\* button_press_time takes when cleared; bridge_config may lack "whitelist".
Init ==
    /\ \E timeout \in 0..MaxTimeout, enabled \in BOOLEAN :
          enhanced_security = EnhancedSecurityInit(timeout, enabled)
    /\ timers = <<>>
    /\ now = 1
    /\ bridge_config \in {EmptyDict, [k \in {"whitelist"} |-> EmptyDict]}
    /\ uuid_count = 0
    /\ ret = [op |-> "init"]
    /\ hist = [last_arm |-> 0, rearm |-> FALSE, reset |-> FALSE, denied |-> FALSE]
    /\ pc = [th \in 1..NThreads |-> "idle"]

\* POST/GET /api/linkbutton/press
PressButton ==
    /\ enhanced_security.security_enabled => Len(timers) < MaxTimers
    /\ LET r == press_button(enhanced_security, timers, now)
       IN /\ enhanced_security' = r.self
          /\ timers' = r.timers
          /\ ret' = [op |-> "press_button", val |-> r.ret,
                     was |-> Was(enhanced_security, now)]
    /\ UNCHANGED <<now, bridge_config, uuid_count>>

\* the activity query (EnhancedLinkButton reads go through it)
IsButtonPressed ==
    /\ LET r == is_button_pressed(enhanced_security, now)
       IN /\ enhanced_security' = r.self
          /\ ret' = [op |-> "is_button_pressed", val |-> r.ret,
                     was |-> Was(enhanced_security, now)]
    /\ UNCHANGED <<timers, now, bridge_config, uuid_count>>

\* GET /api/linkbutton/status
GetStatus ==
    /\ LET r == get_status(enhanced_security, now)
       IN /\ enhanced_security' = r.self
          /\ ret' = [op |-> "get_status", val |-> r.ret,
                     was |-> Was(enhanced_security, now)]
    /\ UNCHANGED <<timers, now, bridge_config, uuid_count>>

\* POST /api/linkbutton/reset
Reset ==
    /\ LET r == reset(enhanced_security, timers)
       IN /\ enhanced_security' = r.self
          /\ timers' = r.timers
    /\ ret' = [op |-> "reset", was |-> Was(enhanced_security, now)]
    /\ UNCHANGED <<now, bridge_config, uuid_count>>

\* the registration endpoint
TryRegister ==
    \E data \in Requests, skew \in BOOLEAN :
        LET r == enhanced_auth_wrapper(data, bridge_config, enhanced_security,
                                       now, uuid_count, skew)
        IN /\ r.uuids <= MaxUuid
           /\ enhanced_security' = r.self
           /\ bridge_config' = r.bridge_config
           /\ uuid_count' = r.uuids
           /\ ret' = [op |-> "tryRegister", data |-> data, val |-> r.ret,
                      was |-> Was(enhanced_security, now),
                      pre |-> [sec |-> enhanced_security, timers |-> timers,
                               bridge_config |-> bridge_config]]
           /\ UNCHANGED <<timers, now>>

\* the timer thread wakes up at or after its deadline, finds it was not
\* cancelled and commits to the callback
TimerWake ==
    \E i \in 1..Len(timers) :
        /\ timers[i].state = "waiting"
        /\ now >= timers[i].deadline
        /\ timers' = [timers EXCEPT ![i].state = "inflight"]
        /\ ret' = [op |-> "timer_wake"]
        /\ UNCHANGED <<enhanced_security, now, bridge_config, uuid_count>>

\* the timer thread runs the callback _button_timeout
TimerRun ==
    \E i \in 1..Len(timers) :
        /\ timers[i].state = "inflight"
        /\ enhanced_security' = _button_timeout(enhanced_security)
        /\ timers' = [timers EXCEPT ![i] = FinishedTimer]
        /\ ret' = [op |-> "timer_run",
                   own |-> i = enhanced_security.cleanup_thread,
                   phase_before |-> Was(enhanced_security, now).phase = "before"]
        /\ UNCHANGED <<now, bridge_config, uuid_count>>

\* time passes
Tick ==
    /\ now < MaxTime
    /\ now' = now + 1
    /\ ret' = [op |-> "tick"]
    /\ UNCHANGED <<enhanced_security, timers, bridge_config, uuid_count>>

\* ---- what is remembered of the most recent press_button ------------------
HistArm ==
    hist' = [last_arm |-> now,
             rearm |-> Was(enhanced_security, now).phase \in {"before", "at"},
             reset |-> FALSE, denied |-> FALSE]

HistQuery ==
    hist' = [hist EXCEPT !.denied = @ \/ ~is_button_pressed(enhanced_security, now).ret]

HistReset == hist' = [hist EXCEPT !.reset = TRUE]

\* ---- the pairing window and its timer ------------------------------------
Next ==
    \/ PressButton /\ HistArm /\ UNCHANGED pc
    \/ IsButtonPressed /\ HistQuery /\ UNCHANGED pc
    \/ GetStatus /\ UNCHANGED <<hist, pc>>
    \/ Reset /\ HistReset /\ UNCHANGED pc
    \/ TimerWake /\ UNCHANGED <<hist, pc>>
    \/ TimerRun /\ UNCHANGED <<hist, pc>>
    \/ Tick /\ UNCHANGED <<hist, pc>>

Spec == Init /\ [][Next]_vars

\* ---- the window left to its timer ---------------------------------------
\* No query and no reset is made: only press_button, the timer threads and
\* the clock move.  A press is taken while the end of its window is still on
\* the modelled clock.  The timer threads are daemon threads the interpreter
\* keeps scheduling, and time passes: weak fairness on the three.
NextLive ==
    \/ now + enhanced_security.button_timeout <= MaxTime /\ PressButton /\ HistArm /\ UNCHANGED pc
    \/ TimerWake /\ UNCHANGED <<hist, pc>>
    \/ TimerRun /\ UNCHANGED <<hist, pc>>
    \/ Tick /\ UNCHANGED <<hist, pc>>

SpecLive ==
    /\ Init
    /\ [][NextLive]_vars
    /\ WF_vars(TimerWake /\ UNCHANGED <<hist, pc>>)
    /\ WF_vars(TimerRun /\ UNCHANGED <<hist, pc>>)
    /\ WF_vars(Tick /\ UNCHANGED <<hist, pc>>)

\* ---- the patched linkbutton ----------------------------------------------
LinkButtonKeys == {"lastpress", "name"}

\* initialize_enhanced_security has run: bridge_config["linkbutton"], present
\* before or not, is the wrapper
InitLink ==
    /\ \E timeout \in 0..MaxTimeout, enabled \in BOOLEAN :
          enhanced_security = EnhancedSecurityInit(timeout, enabled)
    /\ timers = <<>>
    /\ now = 1
    /\ \E bc \in {EmptyDict, [k \in {"linkbutton"} |-> [lastpress |-> 0]]} :
          bridge_config = patch_bridge_linkbutton(bc)
    /\ uuid_count = 0
    /\ ret = [op |-> "init"]
    /\ hist = [last_arm |-> 0, rearm |-> FALSE, reset |-> FALSE, denied |-> FALSE]
    /\ pc = [th \in 1..NThreads |-> "idle"]

\* bridge_config["linkbutton"][key] = value, the value being the clock
LinkButtonSet ==
    \E key \in LinkButtonKeys :
        /\ enhanced_security.security_enabled => Len(timers) < MaxTimers
        /\ LET r == EnhancedLinkButton_setitem(bridge_config, enhanced_security,
                                               timers, now, key, now, RecursionLimit)
           IN /\ enhanced_security' = r.self
              /\ timers' = r.timers
              /\ bridge_config' = r.bridge_config
              /\ ret' = [op |-> "linkbutton_set", key |-> key,
                         outcome |-> r.outcome, presses |-> r.presses,
                         was |-> Was(enhanced_security, now)]
        /\ UNCHANGED <<now, uuid_count>>

\* bridge_config["linkbutton"][key] and bridge_config["linkbutton"].get(key)
LinkButtonGet ==
    \E key \in LinkButtonKeys, via \in {"index", "get"} :
        /\ LET r == IF via = "index"
                    THEN EnhancedLinkButton_getitem(bridge_config, enhanced_security, now, key)
                    ELSE EnhancedLinkButton_get(bridge_config, enhanced_security, now, key, 0)
           IN /\ enhanced_security' = r.self
              /\ ret' = [op |-> "linkbutton_get", key |-> key, via |-> via,
                         val |-> r.ret, was |-> Was(enhanced_security, now)]
        /\ UNCHANGED <<timers, now, bridge_config, uuid_count>>

NextLink ==
    \/ LinkButtonSet /\ UNCHANGED <<hist, pc>>
    \/ LinkButtonGet /\ UNCHANGED <<hist, pc>>
    \/ TimerWake /\ UNCHANGED <<hist, pc>>
    \/ TimerRun /\ UNCHANGED <<hist, pc>>
    \/ Tick /\ UNCHANGED <<hist, pc>>

SpecLink == InitLink /\ [][NextLink]_vars

\* ---- registration through the gate ---------------------------------------
\* (hist is not kept here: no claim about registration reads it)
NextAuth ==
    \/ TryRegister /\ UNCHANGED <<hist, pc>>
    \/ PressButton /\ UNCHANGED <<hist, pc>>
    \/ Reset /\ UNCHANGED <<hist, pc>>
    \/ TimerWake /\ UNCHANGED <<hist, pc>>
    \/ TimerRun /\ UNCHANGED <<hist, pc>>
    \/ Tick /\ UNCHANGED <<hist, pc>>

SpecAuth == Init /\ [][NextAuth]_vars

\* ---- the same methods, statement by statement ----------------------------
\* EnhancedSecurity holds no lock: request threads and timer threads share the
\* one instance and the interpreter may switch between them after any
\* statement.  pc[th] names the line a request thread executes next; a timer
\* thread inside its callback keeps its place in the timer's state
\* ("inflight" before line 123, then "cb124", "cb125").

\* time.time() counts from the epoch while the modelled clock starts shortly
\* before the first press: a cleared button_press_time (0) lies further back
\* than any timeout
Elapsed(t, since) == IF since = 0 THEN MaxTimeout + t ELSE t - since

\* press_button is called; line 33 is tested and line 34 / 44 executed
CallPress(th) ==
    /\ pc[th] = "idle"
    /\ enhanced_security.security_enabled =>
          Len(timers) + Cardinality({u \in DOMAIN pc : pc[u] \in {"p45", "p48", "p59", "p62"}})
              < MaxTimers
    /\ enhanced_security' = [enhanced_security EXCEPT !.button_pressed = TRUE]
    /\ pc' = [pc EXCEPT ![th] = IF enhanced_security.security_enabled THEN "p45" ELSE "p35"]
    /\ ret' = [op |-> "statement"]
    /\ UNCHANGED <<timers, now, bridge_config, uuid_count>>

\* the next statement of press_button
PressStep(th) ==
    /\ \/ /\ pc[th] = "p35"
          /\ enhanced_security' = [enhanced_security EXCEPT !.button_press_time = now]
          /\ pc' = [pc EXCEPT ![th] = "idle"]
          /\ UNCHANGED timers
       \/ /\ pc[th] = "p45"
          /\ enhanced_security' = [enhanced_security EXCEPT !.button_press_time = now]
          /\ pc' = [pc EXCEPT ![th] = "p48"]
          /\ UNCHANGED timers
       \/ /\ pc[th] = "p48"
          /\ enhanced_security' = [enhanced_security EXCEPT !.led_state = LedsOn]
          /\ pc' = [pc EXCEPT ![th] = "p59"]
          /\ UNCHANGED timers
       \/ /\ pc[th] = "p59"
          /\ timers' = IF enhanced_security.cleanup_thread # 0
                       THEN TimerCancel(timers, enhanced_security.cleanup_thread)
                       ELSE timers
          /\ pc' = [pc EXCEPT ![th] = "p62"]
          /\ UNCHANGED enhanced_security
       \/ /\ pc[th] = "p62"
          /\ timers' = Append(timers, [deadline |-> 0, state |-> "created"])
          /\ enhanced_security' = [enhanced_security EXCEPT !.cleanup_thread = Len(timers) + 1]
          /\ pc' = [pc EXCEPT ![th] = "p63"]
       \/ /\ pc[th] = "p63"
          /\ LET h == enhanced_security.cleanup_thread
             IN timers' =
                  IF timers[h].state = "created"
                  THEN [timers EXCEPT ![h] = NewTimer(now, enhanced_security.button_timeout)]
                  ELSE IF timers[h].state = "cancelled"
                  THEN [timers EXCEPT ![h] = FinishedTimer]
                  ELSE timers    \* RuntimeError: threads can only be started once
          /\ pc' = [pc EXCEPT ![th] = "idle"]
          /\ UNCHANGED enhanced_security
    /\ ret' = [op |-> "statement"]
    /\ UNCHANGED <<now, bridge_config, uuid_count>>

\* reset is called; lines 133-134 executed, _button_timeout entered
CallReset(th) ==
    /\ pc[th] = "idle"
    /\ timers' = IF enhanced_security.cleanup_thread # 0
                 THEN TimerCancel(timers, enhanced_security.cleanup_thread)
                 ELSE timers
    /\ pc' = [pc EXCEPT ![th] = "e123"]
    /\ ret' = [op |-> "statement"]
    /\ UNCHANGED <<enhanced_security, now, bridge_config, uuid_count>>

\* is_button_pressed is called and finds the flag set at line 78 (with the
\* flag clear it returns False at once and nothing changes)
CallQuery(th) ==
    /\ pc[th] = "idle"
    /\ enhanced_security.button_pressed
    /\ pc' = [pc EXCEPT ![th] = "q81"]
    /\ ret' = [op |-> "statement"]
    /\ UNCHANGED <<enhanced_security, timers, now, bridge_config, uuid_count>>

\* lines 81-83: the elapsed time against the timeout
QueryStep(th) ==
    /\ pc[th] = "q81"
    /\ pc' = [pc EXCEPT ![th] =
                IF Elapsed(now, enhanced_security.button_press_time)
                       > enhanced_security.button_timeout
                THEN "e123" ELSE "idle"]
    /\ ret' = [op |-> "statement"]
    /\ UNCHANGED <<enhanced_security, timers, now, bridge_config, uuid_count>>

\* the next statement of _button_timeout, run by a request thread (the lazy
\* expiry of is_button_pressed, or reset)
ExpireStep(th) ==
    /\ \/ /\ pc[th] = "e123"
          /\ enhanced_security' = [enhanced_security EXCEPT !.button_pressed = FALSE]
          /\ pc' = [pc EXCEPT ![th] = "e124"]
       \/ /\ pc[th] = "e124"
          /\ enhanced_security' = [enhanced_security EXCEPT !.button_press_time = 0]
          /\ pc' = [pc EXCEPT ![th] = "e125"]
       \/ /\ pc[th] = "e125"
          /\ enhanced_security' = [enhanced_security EXCEPT !.led_state = LedsOff]
          /\ pc' = [pc EXCEPT ![th] = "idle"]
    /\ ret' = [op |-> "statement"]
    /\ UNCHANGED <<timers, now, bridge_config, uuid_count>>

\* the next statement of _button_timeout, run by timer thread i
CallbackStep(i) ==
    /\ \/ /\ timers[i].state = "inflight"
          /\ enhanced_security' = [enhanced_security EXCEPT !.button_pressed = FALSE]
          /\ timers' = [timers EXCEPT ![i].state = "cb124"]
       \/ /\ timers[i].state = "cb124"
          /\ enhanced_security' = [enhanced_security EXCEPT !.button_press_time = 0]
          /\ timers' = [timers EXCEPT ![i].state = "cb125"]
       \/ /\ timers[i].state = "cb125"
          /\ enhanced_security' = [enhanced_security EXCEPT !.led_state = LedsOff]
          /\ timers' = [timers EXCEPT ![i] = FinishedTimer]
    /\ ret' = [op |-> "statement"]
    /\ UNCHANGED <<now, bridge_config, uuid_count, pc>>

\* the clock value the most recent press_button stored (line 35 / 45)
HistStamp(th) ==
    hist' = IF pc[th] \in {"p35", "p45"} THEN [hist EXCEPT !.last_arm = now] ELSE hist

NextConc ==
    \/ \E th \in DOMAIN pc : CallPress(th) /\ UNCHANGED hist
    \/ \E th \in DOMAIN pc : PressStep(th) /\ HistStamp(th)
    \/ \E th \in DOMAIN pc : CallReset(th) /\ HistReset
    \/ \E th \in DOMAIN pc : CallQuery(th) /\ UNCHANGED hist
    \/ \E th \in DOMAIN pc : QueryStep(th) /\ UNCHANGED hist
    \/ \E th \in DOMAIN pc : ExpireStep(th) /\ UNCHANGED hist
    \/ \E i \in 1..Len(timers) : CallbackStep(i) /\ UNCHANGED hist
    \/ TimerWake /\ UNCHANGED <<hist, pc>>
    \/ Tick /\ UNCHANGED <<hist, pc>>

SpecConc == Init /\ [][NextConc]_vars

\* ---- claims ---------------------------------------------------------------
Whitelist(bc) == DictGet(bc, "whitelist", EmptyDict)
IsSuccess(v) == "success" \in DOMAIN v
WantsKey(data) == DictGet(data, "generateclientkey", FALSE)

\* C1: a tryRegister that starts with the window disarmed (flag clear: never
\* armed, reset or already expired; or flag set but more than button_timeout
\* elapsed) returns the error 101 "link button not pressed" and leaves the
\* whitelist store as it was; a tryRegister changes the store only when the
\* activity check on the state it started from is true.
C1_DisarmedRegisterRejected ==
    ret.op = "tryRegister" =>
        /\ ret.was.phase \in {"none", "after"} =>
              /\ ret.val = LinkButtonNotPressed
              /\ ret.val.error.type = LinkButtonNotPressedType
              /\ bridge_config = ret.pre.bridge_config
        /\ bridge_config # ret.pre.bridge_config =>
              is_button_pressed(ret.pre.sec, now).ret

C1_Witness ==
    /\ ret.op = "tryRegister"
    /\ ret.was.phase = "after"
    /\ ret.val = LinkButtonNotPressed
    /\ bridge_config = ret.pre.bridge_config

\* C2: a tryRegister that starts with the window armed and unexpired returns
\* a success whose username is non-empty and is not an id of the whitelist
\* it started from; the success carries a clientkey exactly when
\* generateclientkey was requested, and that key has 32 characters.
C2_ArmedRegisterSucceeds ==
    (ret.op = "tryRegister" /\ ret.was.phase \in {"before", "at"}) =>
        /\ IsSuccess(ret.val)
        /\ ret.val.success.username.len > 0
        /\ ret.val.success.username \notin DOMAIN Whitelist(ret.pre.bridge_config)
        /\ ("clientkey" \in DOMAIN ret.val.success) <=> WantsKey(ret.data)
        /\ WantsKey(ret.data) => ret.val.success.clientkey.len = ClientKeyLen

C2_Witness ==
    /\ ret.op = "tryRegister"
    /\ ret.was.phase \in {"before", "at"}
    /\ IsSuccess(ret.val)
    /\ "clientkey" \in DOMAIN ret.val.success
    /\ ret.val.success.clientkey.len = ClientKeyLen
    /\ Cardinality(DOMAIN Whitelist(ret.pre.bridge_config)) = 1
    /\ Cardinality(DOMAIN Whitelist(bridge_config)) = 2

Armed == hist.last_arm # 0
SinceArm == now - hist.last_arm
Disarmed(self) ==
    /\ ~self.button_pressed
    /\ self.button_press_time = 0
    /\ self.led_state = LedsOff

\* C3: in the state press_button returns in, with no time elapsed, the
\* activity query answers true and the status reports button_pressed true,
\* for every configured timeout and with security enabled or disabled.
C3_ArmThenActive ==
    ret.op = "press_button" =>
        /\ is_button_pressed(enhanced_security, now).ret
        /\ get_status(enhanced_security, now).ret.button_pressed

\* C4: a query made more than button_timeout after the most recent
\* press_button answers false, whether or not the timer callback has run;
\* and a query answers true only if no query has answered false since the
\* most recent press_button.
C4_ExpiredStaysInactive ==
    ret.op = "is_button_pressed" =>
        /\ (Armed /\ SinceArm > enhanced_security.button_timeout) => ~ret.val
        /\ ret.val => ~hist.denied

C4_Witness ==
    /\ ret.op = "is_button_pressed"
    /\ Armed
    /\ SinceArm > enhanced_security.button_timeout
    /\ ~hist.reset
    /\ ret.was.phase = "after"
    /\ ~ret.val

\* C5: after a press_button made while the window was armed and unexpired,
\* and with no reset since, the window is armed at every time before that
\* press_button plus button_timeout: both queries would report it armed; a
\* timer started by an earlier press_button does not disarm it.
C5_RearmRestartsWindow ==
    (hist.rearm /\ ~hist.reset /\ SinceArm < enhanced_security.button_timeout) =>
        /\ is_button_pressed(enhanced_security, now).ret
        /\ get_status(enhanced_security, now).ret.button_pressed

\* C6: in the state reset returns in, and in every state until the next
\* press_button, the flag is clear, button_press_time is 0, the three
\* indicators are off and the activity query answers false.
C6_ResetDisarms ==
    (ret.op = "reset" \/ hist.reset) =>
        /\ Disarmed(enhanced_security)
        /\ ~is_button_pressed(enhanced_security, now).ret

C6_Witness ==
    /\ ret.op = "reset"
    /\ ret.was.phase = "before"
    /\ \E i \in 1..Len(timers) : timers[i].state = "inflight"
    /\ Disarmed(enhanced_security)

\* C7: a get_status made more than button_timeout after the most recent
\* press_button reports button_pressed false, time_remaining 0 and the three
\* indicators off, and the stored state is disarmed when it returns.
C7_StatusAfterExpiry ==
    (ret.op = "get_status" /\ Armed /\ SinceArm > enhanced_security.button_timeout) =>
        /\ ~ret.val.button_pressed
        /\ ret.val.time_remaining = 0
        /\ ret.val.leds = LedsOff
        /\ Disarmed(enhanced_security)

C7_Witness ==
    /\ ret.op = "get_status"
    /\ Armed
    /\ SinceArm > enhanced_security.button_timeout
    /\ ret.was.phase = "after"
    /\ ~ret.val.button_pressed
    /\ Disarmed(enhanced_security)

\* C8: with security_enabled false, tryRegister does not consult the window:
\* it succeeds and writes a credential from every state.
C8_DisabledSecuritySkipsWindow ==
    (ret.op = "tryRegister" /\ ~enhanced_security.security_enabled) =>
        /\ IsSuccess(ret.val)
        /\ bridge_config # ret.pre.bridge_config

\* C9 as stated: a tryRegister that returns the error leaves the whitelist
\* store, the timers and every field of the window as they were.
C9_RejectionMutatesNothing ==
    (ret.op = "tryRegister" /\ ret.val = LinkButtonNotPressed) =>
        /\ bridge_config = ret.pre.bridge_config
        /\ timers = ret.pre.timers
        /\ enhanced_security = ret.pre.sec

\* C9 amended: a tryRegister that returns the error leaves the whitelist
\* store and the timers as they were; it leaves the window as it was when
\* the flag was clear, and when the flag was still set (the window had timed
\* out) it performs the expiry: flag clear, button_press_time 0, indicators
\* off, every other field as it was.
C9_RejectionOnlyExpires ==
    (ret.op = "tryRegister" /\ ret.val = LinkButtonNotPressed) =>
        /\ bridge_config = ret.pre.bridge_config
        /\ timers = ret.pre.timers
        /\ enhanced_security =
              IF ret.pre.sec.button_pressed
              THEN [ret.pre.sec EXCEPT !.button_pressed = FALSE,
                                       !.button_press_time = 0,
                                       !.led_state = LedsOff]
              ELSE ret.pre.sec

C9_Witness ==
    /\ ret.op = "tryRegister"
    /\ ret.val = LinkButtonNotPressed
    /\ ret.was.phase = "after"
    /\ ret.pre.sec.led_state = LedsOn
    /\ Disarmed(enhanced_security)
    /\ bridge_config = ret.pre.bridge_config

\* C10: after a successful tryRegister the whitelist holds under the
\* returned username an entry whose name is the request's device type, whose
\* create date equals its last use date (the time of the call), and which
\* has a clientkey, equal to the returned one, exactly when one was
\* requested; every entry the whitelist had before is unchanged.
C10_CredentialRecorded ==
    (ret.op = "tryRegister" /\ IsSuccess(ret.val)) =>
        LET u == ret.val.success.username
            wl == Whitelist(bridge_config)
            old == Whitelist(ret.pre.bridge_config)
        IN /\ u \in DOMAIN wl
           /\ wl[u]["name"] = DictGet(ret.data, "devicetype", DefaultDeviceType)
           /\ wl[u]["last use date"] = DateTimeNow(now, FALSE)
           /\ wl[u]["create date"] = wl[u]["last use date"]
           /\ ("clientkey" \in DOMAIN wl[u]) <=> WantsKey(ret.data)
           /\ WantsKey(ret.data) => wl[u]["clientkey"] = ret.val.success.clientkey
           /\ \A k \in DOMAIN old : k \in DOMAIN wl /\ wl[k] = old[k]

\* C11: a successful tryRegister does not disarm or otherwise change the
\* pairing window: the window's fields and the timers are as they were, and
\* the activity check still answers true, so that a tryRegister following at
\* once succeeds too.
C11_SuccessKeepsWindow ==
    (ret.op = "tryRegister" /\ IsSuccess(ret.val)) =>
        /\ enhanced_security = ret.pre.sec
        /\ timers = ret.pre.timers
        /\ is_button_pressed(enhanced_security, now).ret

\* C12: on every stored state and clock value the status reports
\* button_pressed exactly when the activity query answers true.
C12_StatusAgreesWithQuery ==
    get_status(enhanced_security, now).ret.button_pressed
        = is_button_pressed(enhanced_security, now).ret

\* C13: the callback of a timer that is no longer the cleanup handle (a later
\* press_button replaced it) does not disarm a window that is armed and
\* before its own timeout: the flag stays set and the indicators stay on.
C13_SupersededTimerHarmless ==
    (ret.op = "timer_run" /\ ~ret.own /\ ret.phase_before) =>
        /\ enhanced_security.button_pressed
        /\ enhanced_security.led_state = LedsOn

\* C17 as stated: between operations the three indicator flags are equal and
\* are on exactly when the flag button_pressed is set.
C17_IndicatorsReflectArmed ==
    /\ enhanced_security.led_state \in {LedsOn, LedsOff}
    /\ (enhanced_security.led_state = LedsOn) <=> enhanced_security.button_pressed

\* C17 amended: between operations the three indicator flags are equal; with
\* security enabled they are on exactly when button_pressed is set, and with
\* security disabled they are off in every state, armed or not.
C17_IndicatorsReflectArmedWhenEnabled ==
    /\ enhanced_security.led_state \in {LedsOn, LedsOff}
    /\ enhanced_security.security_enabled =>
          ((enhanced_security.led_state = LedsOn) <=> enhanced_security.button_pressed)
    /\ ~enhanced_security.security_enabled => enhanced_security.led_state = LedsOff

C17_Witness ==
    /\ ret.op = "timer_run"
    /\ ret.own
    /\ hist.rearm
    /\ enhanced_security.security_enabled
    /\ Disarmed(enhanced_security)
    /\ hist.last_arm # 0

\* C16 as stated, in the form a finite run refutes: in every configuration a
\* window that is armed has a timer that is still to run its callback (no
\* query is made here, so nothing else can disarm it).
C16_ArmedHasTimer ==
    enhanced_security.button_pressed =>
        \E i \in 1..Len(timers) : timers[i].state \in {"waiting", "inflight"}

\* C16 amended: with security enabled, an armed window that is left to its
\* timer (no query, no reset) is eventually disarmed with all indicators off.
C16_TimerDisarmsWhenEnabled ==
    (enhanced_security.security_enabled /\ enhanced_security.button_pressed)
        ~> Disarmed(enhanced_security)

C16_Witness ==
    /\ ret.op = "timer_run"
    /\ ret.own
    /\ ~ret.phase_before
    /\ now >= hist.last_arm + enhanced_security.button_timeout
    /\ Disarmed(enhanced_security)
    /\ \A i \in 1..Len(timers) : timers[i] = FinishedTimer

\* C18: a write of "lastpress" through the patched linkbutton returns, after
\* exactly one press_button call.
C18_SetLastpressReturns ==
    (ret.op = "linkbutton_set" /\ ret.key = "lastpress") =>
        /\ ret.outcome = "returned"
        /\ ret.presses = 1

\* C19: a read of "lastpress" through the patched linkbutton, by index or by
\* get, gives the current clock value (never 0) when the window is armed and
\* its timeout has not been exceeded, and 0 when it is disarmed or expired.
C19_LastpressReadsWindow ==
    (ret.op = "linkbutton_get" /\ ret.key = "lastpress") =>
        IF ret.was.phase \in {"before", "at"}
        THEN ret.val = now /\ ret.val # 0
        ELSE ret.val = 0

C19_Witness ==
    /\ ret.op = "linkbutton_get"
    /\ ret.key = "lastpress"
    /\ ret.via = "get"
    /\ ret.was.phase = "after"
    /\ ret.val = 0
    /\ Disarmed(enhanced_security)

\* every call has returned and no timer thread is inside its callback
Quiescent ==
    /\ \A th \in DOMAIN pc : pc[th] = "idle"
    /\ \A i \in 1..Len(timers) : timers[i].state \notin {"cb124", "cb125"}

\* C14: with security enabled and no reset made, once the press_button calls
\* and the expiries (timer callbacks, lazy expiries of is_button_pressed)
\* that ran interleaved have all completed, the indicators are on exactly
\* when the flag button_pressed is set.
C14_ConsistentAfterRace ==
    (Quiescent /\ enhanced_security.security_enabled /\ ~hist.reset) =>
        /\ enhanced_security.led_state \in {LedsOn, LedsOff}
        /\ (enhanced_security.led_state = LedsOn) <=> enhanced_security.button_pressed

\* C15: in every state a concurrent reader may see, a set flag button_pressed
\* comes with button_press_time holding the clock value of the most recent
\* press_button, never 0 and never an older value.
C15_ArmedAtNeverTorn ==
    enhanced_security.button_pressed =>
        /\ enhanced_security.button_press_time # 0
        /\ enhanced_security.button_press_time = hist.last_arm

\* C20: at most one timer is waiting for its deadline, and a waiting timer is
\* the one the cleanup handle refers to.
C20_OnePendingTimer ==
    \A i, j \in 1..Len(timers) :
        (timers[i].state = "waiting" /\ timers[j].state = "waiting") =>
            /\ i = j
            /\ i = enhanced_security.cleanup_thread
====
